---- MODULE Spec2Model ----
(***************************************************************************)
(* TradeL bot: the subscriber collection (TradeLBot.users, data/users.json),*)
(* the dispatch pass (TradeLBot.trigger_alerts), the subscription sweep     *)
(* (TradeLBot.check_subscriptions), the background loop (TradeLBot.run),    *)
(* the signal intake (whatsapp_webhook, TradeLBot.process_signal and the    *)
(* daily signal log), the management console (activate_user_cli) and the   *)
(* payment lists (ManualPaymentSystem).                                     *)
(*                                                                         *)
(* The application is one process: request threads that serve the webhook  *)
(* and the management routes, and the daemon thread that runs the sweep.   *)
(* All work on the same in-memory list of dicts and rewrite data/users.json *)
(* whole.  The console and the payment system are processes of their own   *)
(* that share only the files with the application.  A subscriber is         *)
(* identified by its position in the list: records are appended, never     *)
(* removed.                                                                 *)
(*                                                                         *)
(* Specifications: Spec and FairSpec (management requests, dispatch, sweep),*)
(* ConsoleSpec (management requests, dispatch, console), WebSpec (webhook   *)
(* on two threads, add_user), PaySpec (management requests, dispatch,       *)
(* payments), ClassifySpec and PushSpec (one call of is_trading_signal, of  *)
(* send_push_notification).                                                 *)
(***************************************************************************)
EXTENDS Integers, Sequences, FiniteSets, TLC

\* ------------------------------------------------------------------ bounds
MaxUsers  == 2      \* records in the collection
MaxNow    == 31     \* last clock reading, in days
MaxRequests == 3    \* requests served in one behaviour
MaxLoaded == 1      \* records data/users.json holds when the application starts
MaxSec    == 1      \* last second of a day the clock reads
MaxText   == 6      \* characters of a message body
MaxPayments == 2    \* payment records in the two payment lists

\* ------------------------------------------------------- program constants
SubscriptionDays == 30
SecondsPerDay    == 86400

\* ------------------------------------------------------------- field values
\* A key the dict does not hold (user.get(key) gives the default).
NoKey == "<absent>"
Phone == "08012345678"
Token == "player-1"

\* user["expiry"]: None, an isoformat() string (its instant, in days), a string
\* datetime.fromisoformat rejects (ValueError), or a JSON value that is not a
\* string, for which datetime.fromisoformat raises TypeError.
NoExpiry  == [kind |-> "none", at |-> 0]
Iso(t)    == [kind |-> "iso", at |-> t]
Garbage   == [kind |-> "garbage", at |-> 0]
NonString == [kind |-> "nonstring", at |-> 0]

\* Python truthiness of user.get(key) for a string field.
Truthy(v) == v # NoKey /\ v # ""

VARIABLES
    users,      \* TradeLBot.users, the in-memory collection
    file,      \* the content of data/users.json
    now,       \* datetime.now(), in days
    requests,  \* requests served: add, activate, deactivate, signal intake
    \* the request thread inside trigger_alerts
    dpc,       \* "idle", "loop", "close", "done"
    dActive,   \* active_users: positions in users, in list order
    dPos,      \* position of the for loop in dActive
    dBase,     \* alerts_received of every record when the pass began
    dSent,     \* positions send_whatsapp_alert was called for in this pass
    dFailed,   \* positions whose send_whatsapp_alert returned False
    dPush,     \* <<position, outcome>> of the send_push_notification calls
    dBuf,      \* what json.dump put in the open file's buffer
    dWrites,   \* writes of data/users.json by this pass
    \* the daemon thread inside run / check_subscriptions
    spc,       \* "sleep", "scan", "close", "returned", "dead"
    sNow,      \* now, read once at the start of the sweep
    sPos,      \* position of the for loop in users
    sChanged,  \* changed
    sBuf,      \* what json.dump put in the open file's buffer
    sWrites,   \* writes of data/users.json by this sweep
    sExpired,  \* positions this sweep set to inactive
    sFault,    \* the latest sweep that ended raised, and run logged it
    sQuiet     \* 0: the clock moved or a request was served since the latest
               \*    sweep began (or no sweep began yet);
               \* 1: neither happened since the latest sweep began;
               \* 2: nor since the sweep before it began

VARIABLES
    \* the clock below the day, and the request threads inside whatsapp_webhook
    sec,       \* datetime.now(): the second within the day
    signals,   \* the content of signals/<date>.json, for every date
    wpc,       \* per thread: "idle", "write", "alerts", "pass", "responded"
    wBody,     \* per thread: request.form["Body"]
    wSignal,   \* per thread: signal
    wRead,     \* per thread: signals, as read from signals_path
    wResp,     \* per thread: the JSON object the request was answered with
    \* the management console (manage_payments.py), another process
    cpc,       \* "idle", "menu" (inside activate_user_cli, waiting at input())
    cUsers,    \* users, as load_json read them
    cPicked,   \* the position in users of the pending user activated last
    \* the payment lists (payments_symple.py)
    pending,   \* the content of data/pending_payments.json
    confirmed, \* the content of data/confirmed_payments.json
    created,   \* the number of create_payment_record calls so far
    confirmRet, \* what the latest confirm_payment returned ("none" before any)
    \* one call of a function of the application
    text,       \* the argument of is_trading_signal or extract_signal
    classified, \* what is_trading_signal returned
    extracted,  \* what extract_signal returned
    pushArgs,   \* the AlertSystem and the arguments of send_push_notification
    pushRet     \* what it returned and the network calls it made

storeVars    == <<users, file, now, requests>>
dispatchVars == <<dpc, dActive, dPos, dBase, dSent, dFailed, dPush, dBuf, dWrites>>
sweepVars    == <<spc, sNow, sPos, sChanged, sBuf, sWrites, sExpired, sFault, sQuiet>>
sweepLocals  == <<spc, sNow, sPos, sChanged, sBuf, sWrites, sExpired, sFault>>
webVars      == <<sec, signals, wpc, wBody, wSignal, wRead, wResp>>
consoleVars  == <<cpc, cUsers, cPicked>>
payVars      == <<pending, confirmed, created, confirmRet>>
fnVars       == <<text, classified, extracted, pushArgs, pushRet>>
extVars      == <<webVars, consoleVars, payVars, fnVars>>
vars         == <<storeVars, dispatchVars, sweepVars, extVars>>

\* The threads of the development server that serve requests at the same time
\* (app.run serves every request in a thread of its own).
Threads == {"t1", "t2"}

\* Values of the locals of a thread that serves no request, and of a function
\* call that was not made.
NoSignal   == [id |-> -1, timestamp |-> -1]
NoResponse == [status |-> "none"]
NoCall     == [made |-> FALSE]

\* ------------------------------------------------------------ initial file
\* Records data/users.json may hold when the application starts: written by an
\* earlier run and edited by hand or by another tool (add_user never writes a
\* push_token, and the fields below are the ones the code reads with .get()).
LoadedKinds ==
    { [id |-> 0, status |-> "active", expiry |-> Iso(SubscriptionDays),
       phone |-> Phone, push_token |-> Token, alerts_received |-> 0],
      [id |-> 0, status |-> "active", expiry |-> Iso(SubscriptionDays),
       phone |-> NoKey, push_token |-> NoKey, alerts_received |-> 0],
      [id |-> 0, status |-> "active", expiry |-> Garbage,
       phone |-> Phone, push_token |-> NoKey, alerts_received |-> 0],
      [id |-> 0, status |-> "active", expiry |-> NonString,
       phone |-> Phone, push_token |-> NoKey, alerts_received |-> 0] }

\* The files of at most MaxLoaded such records; ids of an earlier run are older
\* than any id this run generates.
InitialFiles ==
    UNION { { [i \in 1..n |-> [f[i] EXCEPT !.id = 0 - i]] : f \in [1..n -> LoadedKinds] } :
            n \in 0..MaxLoaded }

\* ------------------------------------------------------------------ clock
\* The clock is read by add_user, activate_user and check_subscriptions only.
\* Time jumps to a later instant; the instants kept are day 0 and the days from
\* the end of the first subscription window on.
Instants == {0} \cup { t \in 1..MaxNow : t >= SubscriptionDays }

Tick ==
    /\ \E t \in Instants : t > now /\ now' = t
    /\ sQuiet' = 0
    /\ UNCHANGED <<users, file, requests, dispatchVars, sweepLocals, extVars>>

\* The clock moves to the next second of the day.
Second ==
    /\ sec < MaxSec
    /\ sec' = sec + 1
    /\ UNCHANGED <<storeVars, dispatchVars, sweepVars, signals, wpc, wBody, wSignal,
                   wRead, wResp, consoleVars, payVars, fnVars>>

\* datetime.now().strftime("%Y%m%d%H%M%S"): the second the clock reading falls
\* in, which is what the ids of users and signals are made of.
Stamp == now * SecondsPerDay + sec

\* --------------------------------------------------------- user management
\* The first record with this id (for user in self.users: if user["id"] == ...).
FirstWithId(us, uid) ==
    CHOOSE i \in 1..Len(us) : us[i].id = uid /\ \A j \in 1..(i - 1) : us[j].id # uid

\* TradeLBot.add_user: the id is "TR" + the second of the clock reading;
\* save_users follows.
add_user ==
    /\ requests < MaxRequests
    /\ Len(users) < MaxUsers
    /\ \E phone \in {"", Phone} :
         users' = Append(users,
                    [id |-> Stamp, status |-> "pending", expiry |-> NoExpiry,
                     phone |-> phone, push_token |-> NoKey, alerts_received |-> 0])
    /\ file' = users'
    /\ requests' = requests + 1
    /\ sQuiet' = 0
    /\ UNCHANGED <<now, dispatchVars, sweepLocals, extVars>>

\* TradeLBot.activate_user(uid) for an id the collection holds: the first
\* record with that id is activated, and save_users follows.
activate_user_on(uid) ==
    /\ requests < MaxRequests
    /\ LET i == FirstWithId(users, uid) IN
         users' = [users EXCEPT ![i].status = "active",
                                ![i].expiry = Iso(now + SubscriptionDays)]
    /\ file' = users'
    /\ requests' = requests + 1
    /\ sQuiet' = 0
    /\ UNCHANGED <<now, dispatchVars, sweepLocals, extVars>>

\* TradeLBot.activate_user on an id the collection holds.
activate_user ==
    \E uid \in { users[i].id : i \in 1..Len(users) } : activate_user_on(uid)

\* deactivate_user clearing the expiry of the subscriber as well.
deactivate_user_clearing ==
    /\ requests < MaxRequests
    /\ \E uid \in { users[i].id : i \in 1..Len(users) } :
         LET i == FirstWithId(users, uid) IN
         users' = [users EXCEPT ![i].status = "inactive", ![i].expiry = NoExpiry]
    /\ file' = users'
    /\ requests' = requests + 1
    /\ sQuiet' = 0
    /\ UNCHANGED <<now, dispatchVars, sweepLocals, extVars>>

\* TradeLBot.deactivate_user on an id the collection holds.
deactivate_user ==
    /\ requests < MaxRequests
    /\ \E uid \in { users[i].id : i \in 1..Len(users) } :
         LET i == FirstWithId(users, uid) IN
         users' = [users EXCEPT ![i].status = "inactive"]
    /\ file' = users'
    /\ requests' = requests + 1
    /\ sQuiet' = 0
    /\ UNCHANGED <<now, dispatchVars, sweepLocals, extVars>>

\* ------------------------------------------------------- signal detection
\* A text is the sequence of its characters.
LowerCase == <<"a", "b", "c", "d", "e", "f", "g", "h", "i", "j", "k", "l", "m",
               "n", "o", "p", "q", "r", "s", "t", "u", "v", "w", "x", "y", "z">>
UpperCase == <<"A", "B", "C", "D", "E", "F", "G", "H", "I", "J", "K", "L", "M",
               "N", "O", "P", "Q", "R", "S", "T", "U", "V", "W", "X", "Y", "Z">>

\* str.upper().
upper(t) ==
    [i \in 1..Len(t) |->
        IF \E n \in 1..Len(LowerCase) : LowerCase[n] = t[i]
        THEN UpperCase[CHOOSE n \in 1..Len(LowerCase) : LowerCase[n] = t[i]]
        ELSE t[i]]

\* w in t, for two strings.
in(w, t) == \E i \in 1..(Len(t) - Len(w) + 1) : SubSeq(t, i, i + Len(w) - 1) = w

\* The characters \d matches.
Digits == {"0", "1", "2", "3", "4", "5", "6", "7", "8", "9"}

SIGNAL_KEYWORDS ==
    << <<"B", "U", "Y">>, <<"S", "E", "L", "L">>, <<"L", "O", "N", "G">>,
       <<"S", "H", "O", "R", "T">>, <<"T", "P", ":">>, <<"S", "L", ":">>,
       <<"E", "N", "T", "R", "Y">>, <<"S", "I", "G", "N", "A", "L">> >>

TRADING_PAIRS ==
    << <<"B", "T", "C">>, <<"E", "T", "H">>, <<"X", "R", "P">>, <<"S", "O", "L">>,
       <<"A", "D", "A">>, <<"B", "N", "B">>, <<"U", "S", "D">>, <<"E", "U", "R">>,
       <<"G", "B", "P">>, <<"J", "P", "Y">>, <<"X", "A", "U", "U", "S", "D">>,
       <<"G", "O", "L", "D">> >>

\* re.search(r"\d+\.?\d*", text): the pattern matches as soon as the text holds
\* one digit.
re_search_number(t) == \E i \in 1..Len(t) : t[i] \in Digits

\* is_trading_signal with the pair made necessary (and in place of and/or).
is_trading_signal_pair_needed(t) ==
    IF t = << >> THEN FALSE
    ELSE LET up == upper(t) IN
         /\ \E k \in 1..Len(SIGNAL_KEYWORDS) : in(SIGNAL_KEYWORDS[k], up)
         /\ \E p \in 1..Len(TRADING_PAIRS) : in(TRADING_PAIRS[p], up)
         /\ re_search_number(t)

\* is_trading_signal.
is_trading_signal(t) ==
    IF t = << >> THEN FALSE
    ELSE LET up          == upper(t)
             has_keyword == \E k \in 1..Len(SIGNAL_KEYWORDS) : in(SIGNAL_KEYWORDS[k], up)
             has_pair    == \E p \in 1..Len(TRADING_PAIRS) : in(TRADING_PAIRS[p], up)
             has_numbers == re_search_number(t)
         IN  has_keyword /\ (has_pair \/ has_numbers)

\* The texts is_trading_signal is called with: every text of at most MaxText
\* characters of an alphabet that spells a keyword (SL:) in mixed case, a
\* pair (SOL) and a number.
Alphabet == {"s", "L", ":", "O", "7"}
Texts == UNION { [1..n -> Alphabet] : n \in 0..MaxText }

\* One call of is_trading_signal(text).
call_is_trading_signal ==
    /\ ~classified.made
    /\ classified' = [made |-> TRUE, result |-> is_trading_signal(text)]
    /\ UNCHANGED <<storeVars, dispatchVars, sweepVars, webVars, consoleVars, payVars,
                   text, extracted, pushArgs, pushRet>>

\* ------------------------------------------------------ management console
\* manage_payments.py runs in a process of its own, beside the application: it
\* knows data/users.json only.  The positions of the pending records of a list.
PendingPositions(us) == { k \in 1..Len(us) : us[k].status = "pending" }

\* activate_user_cli up to input(): load_json reads the file; without a pending
\* user the function returns, else it lists them and waits for the operator.
activate_user_cli_load ==
    /\ cpc = "idle"
    /\ requests < MaxRequests
    /\ requests' = requests + 1
    /\ IF PendingPositions(file) = {}
       THEN cpc' = "idle" /\ cUsers' = << >>
       ELSE cpc' = "menu" /\ cUsers' = file
    /\ cPicked' = 0
    /\ UNCHANGED <<users, file, now, dispatchVars, sweepVars, webVars, payVars, fnVars>>

\* activate_user_cli after input(), the operator having picked the pending
\* user at position k of the list read: the first record with that user's id
\* is activated and save_json rewrites the file with the list read.
activate_user_cli_pick(k) ==
    /\ cpc = "menu"
    /\ k \in PendingPositions(cUsers)
    /\ LET i == FirstWithId(cUsers, cUsers[k].id) IN
         file' = [cUsers EXCEPT ![i].status = "active",
                                 ![i].expiry = Iso(now + SubscriptionDays)]
    /\ cPicked' = k
    /\ cpc' = "idle"
    /\ cUsers' = << >>
    /\ UNCHANGED <<users, now, requests, dispatchVars, sweepVars, webVars, payVars, fnVars>>

\* activate_user_cli after input(): the operator picks one of the pending
\* users listed.
activate_user_cli_save ==
    \E k \in 1..MaxUsers : activate_user_cli_pick(k)

\* activate_user_cli after input(): the operator types q, or something that is
\* no number of the list; nothing is written.
activate_user_cli_quit ==
    /\ cpc = "menu"
    /\ cpc' = "idle"
    /\ cUsers' = << >>
    /\ UNCHANGED <<storeVars, dispatchVars, sweepVars, webVars, cPicked, payVars, fnVars>>

\* ---------------------------------------------------------------- channels
\* What the text-message transport does on one call.
\*   "ok"     client.messages.create returns
\*   "error"  client.messages.create raises
\*   "noenv"  TWILIO_SID or TWILIO_TOKEN is unset
Transports == {"ok", "error", "noenv"}

\* What the push provider does on one call.
\*   "unconfigured"  ONESIGNAL_APP_ID or ONESIGNAL_API_KEY is unset
\*   "ok"            requests.post returns a result
\*   "error"         requests.post raises or times out
Providers == {"unconfigured", "ok", "error"}

\* WhatsAppService.__init__: TRUE when the service is constructed, FALSE when it
\* raises EnvironmentError.
WhatsAppService_init(transport) == transport # "noenv"

\* WhatsAppService.send_message (through send_alert): the success flag of the
\* pair it returns; every exception of the transport is caught inside.
send_message(transport) == transport = "ok"

\* AlertSystem.send_whatsapp_alert: raised tells whether an exception leaves
\* the call, ok is the value returned.
send_whatsapp_alert(u, transport) ==
    IF WhatsAppService_init(transport)
    THEN [raised |-> FALSE, ok |-> send_message(transport)]
    ELSE [raised |-> FALSE, ok |-> FALSE]

\* AlertSystem.send_push_notification: "not_attempted" without a network call
\* when a credential is unset, else the outcome of the one network call.
send_push_notification(token, provider) ==
    CASE provider = "unconfigured" -> "not_attempted"
      [] provider = "ok"           -> "sent"
      [] OTHER                     -> "failed"

\* One call of send_push_notification in full.  The AlertSystem holds the two
\* credentials as AlertSystem.__init__ read them from the environment ("" when
\* unset); net is what requests.post does if it is called:
\*   "ok"        status 200 and a notification id
\*   "rejected"  another status, or no id
\*   "timeout"   requests.exceptions.Timeout
\*   "error"     another exception
PushCalls ==
    [ app_id : {"", "app-1"}, api_key : {"", "key-1"}, token : {Token, "player-2"},
      action : {"", "BUY"}, pair : {"", "BTC"},
      net : {"ok", "rejected", "timeout", "error"} ]

\* send_push_notification_full skipping the call only when both credentials
\* are unset.
send_push_notification_both_unset(a) ==
    IF ~Truthy(a.app_id) /\ ~Truthy(a.api_key)
    THEN [made |-> TRUE, returned |-> "None", posts |-> 0, outcome |-> "not_attempted"]
    ELSE [made |-> TRUE,
          returned |-> IF a.net \in {"ok", "rejected"} THEN "result" ELSE "None",
          posts |-> 1,
          outcome |-> IF a.net = "ok" THEN "sent" ELSE "failed"]

\* AlertSystem.send_push_notification: what it returns (None or the provider's
\* result), the requests.post calls it makes, and the outcome.
send_push_notification_full(a) ==
    IF ~Truthy(a.app_id) \/ ~Truthy(a.api_key)
    THEN [made |-> TRUE, returned |-> "None", posts |-> 0, outcome |-> "not_attempted"]
    ELSE [made |-> TRUE,
          returned |-> IF a.net \in {"ok", "rejected"} THEN "result" ELSE "None",
          posts |-> 1,
          outcome |-> IF a.net = "ok" THEN "sent" ELSE "failed"]

\* One call of send_push_notification.
call_send_push_notification ==
    /\ ~pushRet.made
    /\ pushRet' = send_push_notification_full(pushArgs)
    /\ UNCHANGED <<storeVars, dispatchVars, sweepVars, webVars, consoleVars, payVars,
                   text, classified, extracted, pushArgs>>

\* AlertSystem.trigger_phone_alarm: calls send_push_notification only for a
\* user with a push token.
trigger_phone_alarm(u, provider) ==
    IF Truthy(u.push_token)
    THEN [called |-> TRUE, outcome |-> send_push_notification(u.push_token, provider)]
    ELSE [called |-> FALSE, outcome |-> "not_attempted"]

\* ------------------------------------------------------------ dispatch pass
\* TradeLBot.get_active_users: the positions of the records with status
\* "active", in list order.
RECURSIVE ActivePositions(_, _)
ActivePositions(us, i) ==
    IF i > Len(us) THEN << >>
    ELSE IF us[i].status = "active" THEN <<i>> \o ActivePositions(us, i + 1)
    ELSE ActivePositions(us, i + 1)

\* get_active_users taking only the active users with a confirmed payment.
get_active_users_paid ==
    SelectSeq(ActivePositions(users, 1),
              LAMBDA i : \E k \in 1..Len(confirmed) : confirmed[k].user_id = users[i].id)

get_active_users == ActivePositions(users, 1)

\* trigger_alerts_step with the counter moved only by a confirmed delivery.
trigger_alerts_step_confirmed(u, transport, provider) ==
    LET hasPhone == Truthy(u.phone)
        wa       == send_whatsapp_alert(u, transport)
        alarm    == trigger_phone_alarm(u, provider)
    IN  [ sent   |-> hasPhone,
          failed |-> hasPhone /\ ~wa.ok,
          push   |-> IF hasPhone /\ ~wa.raised /\ alarm.called
                     THEN {alarm.outcome} ELSE {},
          alerts_received |-> IF hasPhone /\ wa.ok THEN u.alerts_received + 1
                              ELSE u.alerts_received ]

\* trigger_alerts_step with the push sent only after a text message that went
\* out.
trigger_alerts_step_push_on_success(u, transport, provider) ==
    LET hasPhone == Truthy(u.phone)
        wa       == send_whatsapp_alert(u, transport)
        alarm    == trigger_phone_alarm(u, provider)
        escaped  == hasPhone /\ wa.raised
    IN  [ sent   |-> hasPhone,
          failed |-> hasPhone /\ ~wa.ok,
          push   |-> IF hasPhone /\ wa.ok /\ alarm.called
                     THEN {alarm.outcome} ELSE {},
          alerts_received |-> IF escaped THEN u.alerts_received
                              ELSE u.alerts_received + 1 ]

\* The body of the for loop of trigger_alerts for one user: what is sent and
\* the user's counter afterwards.  The increment stands after the if block, so
\* it is skipped only when an exception leaves one of the two calls.  For a
\* record without the key "phone" the log line after the increment raises
\* KeyError, which the except clause logs.
trigger_alerts_step(u, transport, provider) ==
    LET hasPhone == Truthy(u.phone)
        wa       == send_whatsapp_alert(u, transport)
        alarm    == trigger_phone_alarm(u, provider)
        escaped  == hasPhone /\ wa.raised
    IN  [ sent   |-> hasPhone,
          failed |-> hasPhone /\ ~wa.ok,
          push   |-> IF hasPhone /\ ~wa.raised /\ alarm.called
                     THEN {alarm.outcome} ELSE {},
          alerts_received |-> IF escaped THEN u.alerts_received
                              ELSE u.alerts_received + 1 ]

\* trigger_alerts up to the for loop: the locals of the pass.
trigger_alerts_enter ==
    /\ dpc = "idle"
    /\ dActive' = get_active_users
    /\ dPos' = 1
    /\ dBase' = [i \in 1..Len(users) |-> users[i].alerts_received]
    /\ dSent' = {}
    /\ dFailed' = {}
    /\ dPush' = {}
    /\ dWrites' = 0
    /\ dpc' = "loop"
    /\ dBuf' = dBuf

\* A signal intake that reached trigger_alerts.
trigger_alerts_begin ==
    /\ requests < MaxRequests
    /\ requests' = requests + 1
    /\ trigger_alerts_enter
    /\ UNCHANGED <<users, file, now, sweepVars, extVars>>

\* trigger_alerts_user leaving the loop at the first failed text message.
trigger_alerts_user_break ==
    /\ dpc = "loop"
    /\ dPos <= Len(dActive)
    /\ \E transport \in Transports, provider \in Providers :
         LET i == dActive[dPos]
             r == trigger_alerts_step(users[i], transport, provider)
         IN  /\ users' = [users EXCEPT ![i].alerts_received = r.alerts_received]
             /\ dSent' = IF r.sent THEN dSent \cup {i} ELSE dSent
             /\ dFailed' = IF r.failed THEN dFailed \cup {i} ELSE dFailed
             /\ dPush' = dPush \cup { <<i, o>> : o \in r.push }
             /\ dPos' = IF r.failed THEN Len(dActive) + 1 ELSE dPos + 1
    /\ UNCHANGED <<file, now, requests, dpc, dActive, dBase, dBuf, dWrites, sweepVars, extVars>>

\* trigger_alerts_user with save_users inside the loop.
trigger_alerts_user_saving ==
    /\ dpc = "loop"
    /\ dPos <= Len(dActive)
    /\ \E transport \in Transports, provider \in Providers :
         LET i == dActive[dPos]
             r == trigger_alerts_step(users[i], transport, provider)
         IN  /\ users' = [users EXCEPT ![i].alerts_received = r.alerts_received]
             /\ dSent' = IF r.sent THEN dSent \cup {i} ELSE dSent
             /\ dFailed' = IF r.failed THEN dFailed \cup {i} ELSE dFailed
             /\ dPush' = dPush \cup { <<i, o>> : o \in r.push }
    /\ dPos' = dPos + 1
    /\ file' = users'
    /\ dWrites' = dWrites + 1
    /\ UNCHANGED <<now, requests, dpc, dActive, dBase, dBuf, sweepVars, extVars>>

\* One iteration of the for loop of trigger_alerts.
trigger_alerts_user ==
    /\ dpc = "loop"
    /\ dPos <= Len(dActive)
    /\ \E transport \in Transports, provider \in Providers :
         LET i == dActive[dPos]
             r == trigger_alerts_step(users[i], transport, provider)
         IN  /\ users' = [users EXCEPT ![i].alerts_received = r.alerts_received]
             /\ dSent' = IF r.sent THEN dSent \cup {i} ELSE dSent
             /\ dFailed' = IF r.failed THEN dFailed \cup {i} ELSE dFailed
             /\ dPush' = dPush \cup { <<i, o>> : o \in r.push }
    /\ dPos' = dPos + 1
    /\ UNCHANGED <<file, now, requests, dpc, dActive, dBase, dBuf, dWrites, sweepVars, extVars>>

\* save_users at the end of trigger_alerts, first half: the file is opened and
\* json.dump serialises self.users into the file object's buffer.
trigger_alerts_save ==
    /\ dpc = "loop"
    /\ dPos > Len(dActive)
    /\ dBuf' = users
    /\ dpc' = "close"
    /\ UNCHANGED <<storeVars, dActive, dPos, dBase, dSent, dFailed, dPush, dWrites, sweepVars, extVars>>

\* save_users, second half: leaving the with block flushes the buffer to
\* data/users.json.
trigger_alerts_close ==
    /\ dpc = "close"
    /\ file' = dBuf
    /\ dWrites' = dWrites + 1
    /\ dpc' = "done"
    /\ UNCHANGED <<users, now, requests, dActive, dPos, dBase, dSent, dFailed, dPush, dBuf, sweepVars, extVars>>

\* trigger_alerts returns to process_signal, which returns the signal id: the
\* locals of the pass are gone.
trigger_alerts_leave ==
    /\ dpc = "done"
    /\ dpc' = "idle"
    /\ dActive' = << >>
    /\ dPos' = 1
    /\ dBase' = << >>
    /\ dSent' = {}
    /\ dFailed' = {}
    /\ dPush' = {}
    /\ dBuf' = << >>
    /\ dWrites' = 0

\* The signal intake ends.
trigger_alerts_return ==
    /\ trigger_alerts_leave
    /\ UNCHANGED <<storeVars, sweepVars, extVars>>

\* -------------------------------------------------------------------- sweep
\* datetime.fromisoformat on a stored expiry.
fromisoformat(e) ==
    CASE e.kind = "iso"     -> "ok"
      [] e.kind = "garbage" -> "ValueError"
      [] OTHER              -> "TypeError"

\* check_subscriptions_step without the comparison with the clock.
check_subscriptions_step_eager(u, t) ==
    IF u.status = "active" /\ u.expiry.kind # "none"
    THEN CASE fromisoformat(u.expiry) = "ok" ->
                [status |-> "inactive", changed |-> TRUE, raised |-> FALSE]
           [] fromisoformat(u.expiry) = "ValueError" ->
                [status |-> u.status, changed |-> FALSE, raised |-> FALSE]
           [] OTHER ->
                [status |-> u.status, changed |-> FALSE, raised |-> TRUE]
    ELSE [status |-> u.status, changed |-> FALSE, raised |-> FALSE]

\* The body of the for loop of check_subscriptions for one user at sweep time
\* t: the user's status afterwards, whether changed is set, and whether an
\* exception leaves the loop (only ValueError is caught there).
check_subscriptions_step(u, t) ==
    IF u.status = "active" /\ u.expiry.kind # "none"
    THEN CASE fromisoformat(u.expiry) = "ok" ->
                IF t > u.expiry.at
                THEN [status |-> "inactive", changed |-> TRUE, raised |-> FALSE]
                ELSE [status |-> u.status, changed |-> FALSE, raised |-> FALSE]
           [] fromisoformat(u.expiry) = "ValueError" ->
                [status |-> u.status, changed |-> FALSE, raised |-> FALSE]
           [] OTHER ->
                [status |-> u.status, changed |-> FALSE, raised |-> TRUE]
    ELSE [status |-> u.status, changed |-> FALSE, raised |-> FALSE]

\* run without the try: the exception ends the thread.
run_uncaught == "dead"

\* TradeLBot.run: where the thread is after check_subscriptions raised; the
\* except clause logs the exception and the loop goes on to time.sleep, as it
\* does when check_subscriptions returns.
run_except == "returned"

\* run calls check_subscriptions, which reads the clock and clears changed.
check_subscriptions_begin ==
    /\ spc = "sleep"
    /\ sNow' = now
    /\ sChanged' = FALSE
    /\ sPos' = 1
    /\ sWrites' = 0
    /\ sExpired' = {}
    /\ sQuiet' = IF sQuiet = 0 THEN 1 ELSE 2
    /\ spc' = "scan"
    /\ UNCHANGED <<storeVars, dispatchVars, sBuf, sFault, extVars>>

\* One iteration of the for loop of check_subscriptions.  An exception that
\* leaves it ends check_subscriptions and is handled by run.
check_subscriptions_user ==
    /\ spc = "scan"
    /\ sPos <= Len(users)
    /\ LET r == check_subscriptions_step(users[sPos], sNow) IN
         /\ users' = [users EXCEPT ![sPos].status = r.status]
         /\ sChanged' = (sChanged \/ r.changed)
         /\ spc' = IF r.raised THEN run_except ELSE "scan"
         /\ sFault' = IF r.raised THEN TRUE ELSE sFault
         /\ sExpired' = IF r.changed THEN sExpired \cup {sPos} ELSE sExpired
    /\ sPos' = sPos + 1
    /\ UNCHANGED <<file, now, requests, dispatchVars, sNow, sBuf, sWrites, sQuiet, extVars>>

\* check_subscriptions_end with save_users called whether or not changed.
check_subscriptions_end_always ==
    /\ spc = "scan"
    /\ sPos > Len(users)
    /\ sBuf' = users
    /\ spc' = "close"
    /\ UNCHANGED <<storeVars, dispatchVars, sNow, sPos, sChanged, sWrites, sExpired, sFault, sQuiet, extVars>>

\* The end of check_subscriptions: save_users only if changed; its first half
\* puts the serialised collection in the file object's buffer.
check_subscriptions_end ==
    /\ spc = "scan"
    /\ sPos > Len(users)
    /\ IF sChanged
       THEN sBuf' = users /\ spc' = "close" /\ sFault' = sFault
       ELSE sBuf' = sBuf /\ spc' = "returned" /\ sFault' = FALSE
    /\ UNCHANGED <<storeVars, dispatchVars, sNow, sPos, sChanged, sWrites, sExpired, sQuiet, extVars>>

\* save_users, second half: the buffer is flushed to data/users.json and
\* check_subscriptions returns to run.
check_subscriptions_close ==
    /\ spc = "close"
    /\ file' = sBuf
    /\ sWrites' = sWrites + 1
    /\ spc' = "returned"
    /\ sFault' = FALSE
    /\ UNCHANGED <<users, now, requests, dispatchVars, sNow, sPos, sChanged, sBuf, sExpired, sQuiet, extVars>>

\* run goes to time.sleep(interval): the locals of the sweep are gone.
run_sleep ==
    /\ spc = "returned"
    /\ spc' = "sleep"
    /\ sNow' = 0
    /\ sPos' = 1
    /\ sChanged' = FALSE
    /\ sBuf' = << >>
    /\ sWrites' = 0
    /\ sExpired' = {}
    /\ UNCHANGED <<storeVars, dispatchVars, sFault, sQuiet, extVars>>

\* ----------------------------------------------------------------- payments
\* payments_symple.py runs in a process of its own and knows the two payment
\* lists only.  phone.strip()[-4:] of the phones of the model.
Last4(phone) ==
    CASE phone = Phone -> "5678"
      [] phone = NoKey -> "0000"
      [] OTHER         -> ""

\* ManualPaymentSystem.generate_reference: "TRADEL" + the minute of the clock
\* reading (month, day, hour, minute) + the last four characters of the phone.
generate_reference(phone) == [minute |-> now, last4 |-> Last4(phone)]

\* The users a payment is requested for: a record of data/users.json, or the
\* user the command line makes from a name and a phone.
PaymentUsers ==
    { [id |-> file[i].id, phone |-> file[i].phone] : i \in 1..Len(file) }
        \cup { [id |-> Stamp, phone |-> Phone] }

\* ManualPaymentSystem.create_payment_record: the record is appended to the
\* pending list, which is read and rewritten whole.
create_payment_record ==
    /\ created < MaxPayments
    /\ \E user \in PaymentUsers :
         pending' = Append(pending,
                      [ user_id |-> user.id, phone |-> user.phone,
                        reference |-> generate_reference(user.phone),
                        status |-> "pending" ])
    /\ created' = created + 1
    /\ UNCHANGED <<storeVars, dispatchVars, sweepVars, webVars, consoleVars, confirmed,
                   confirmRet, fnVars>>

\* The references the operator may type: those of the pending list, and one no
\* record has.
References ==
    { pending[k].reference : k \in 1..Len(pending) } \cup { [minute |-> -1, last4 |-> ""] }

\* confirm_payment_of leaving the pending list as it is.
confirm_payment_keeping(reference) ==
    LET hits == { k \in 1..Len(pending) : pending[k].reference = reference } IN
    /\ IF hits = {}
       THEN confirmRet' = "False" /\ UNCHANGED <<pending, confirmed>>
       ELSE LET k == CHOOSE x \in hits : \A y \in hits : x <= y IN
            /\ pending' = pending
            /\ confirmed' = Append(confirmed, [pending[k] EXCEPT !.status = "confirmed"])
            /\ confirmRet' = "True"
    /\ UNCHANGED <<storeVars, dispatchVars, sweepVars, webVars, consoleVars, created, fnVars>>

\* ManualPaymentSystem.confirm_payment(reference): the first pending record
\* with the reference is marked confirmed; every record with the reference
\* leaves the pending list and the one found is appended to the confirmed
\* list, and True is returned.  Without such a record nothing is written and
\* False is returned.
confirm_payment_of(reference) ==
    LET hits == { k \in 1..Len(pending) : pending[k].reference = reference } IN
    /\ IF hits = {}
       THEN confirmRet' = "False" /\ UNCHANGED <<pending, confirmed>>
       ELSE LET k == CHOOSE x \in hits : \A y \in hits : x <= y IN
            /\ pending' = SelectSeq(pending, LAMBDA p : p.reference # reference)
            /\ confirmed' = Append(confirmed, [pending[k] EXCEPT !.status = "confirmed"])
            /\ confirmRet' = "True"
    /\ UNCHANGED <<storeVars, dispatchVars, sweepVars, webVars, consoleVars, created, fnVars>>

\* confirm_payment called with a reference the operator typed.
confirm_payment ==
    \E reference \in References : confirm_payment_of(reference)

\* ------------------------------------------------------------ signal intake
\* The spelled-out words extract_signal looks for.
BUY   == <<"B", "U", "Y">>
LONG  == <<"L", "O", "N", "G">>
SELL  == <<"S", "E", "L", "L">>
SHORT == <<"S", "H", "O", "R", "T">>

\* The labels find_value is called with, and the sentinel it returns.
ENTRY == <<"E", "N", "T", "R", "Y">>
TP    == <<"T", "P">>
SL    == <<"S", "L">>
NA    == <<"N", "/", "A">>

\* The characters [:\s] matches.
Separators == {":", " ", "\t", "\n"}

\* find_value(label), upper being up:
\* re.search(rf"{label}[:\s]+([0-9]+\.?[0-9]*)", upper).  The match is the
\* leftmost place where the label is followed by one or more separators and
\* then a digit; group 1 is the longest run of digits there, with a dot after
\* it and the digits after the dot.
find_value(label, up) ==
    LET n == Len(up)
        \* where the run of characters of S that starts at i ends
        RunEnd(i, S) ==
            CHOOSE j \in i..(n + 1) :
                /\ \A k \in i..(j - 1) : up[k] \in S
                /\ j = n + 1 \/ up[j] \notin S
        matches ==
            { i \in 1..(n - Len(label) + 1) :
                /\ SubSeq(up, i, i + Len(label) - 1) = label
                /\ LET s == i + Len(label)
                       d == RunEnd(s, Separators)
                   IN  d > s /\ d <= n /\ up[d] \in Digits }
    IN  IF matches = {} THEN NA
        ELSE LET i == CHOOSE x \in matches : \A y \in matches : x <= y
                 d == RunEnd(i + Len(label), Separators)
                 e == RunEnd(d, Digits)
                 f == IF e <= n /\ up[e] = "." THEN RunEnd(e + 1, Digits) ELSE e
             IN  SubSeq(up, d, f - 1)

\* extract_signal taking the pair that comes first in the text.
extract_signal_leftmost(t) ==
    LET up     == upper(t)
        action == IF in(BUY, up) \/ in(LONG, up) THEN "BUY"
                  ELSE IF in(SELL, up) \/ in(SHORT, up) THEN "SELL"
                  ELSE ""
        At(p)  == { i \in 1..Len(up) :
                      i + Len(TRADING_PAIRS[p]) - 1 <= Len(up)
                      /\ SubSeq(up, i, i + Len(TRADING_PAIRS[p]) - 1) = TRADING_PAIRS[p] }
        found  == { p \in 1..Len(TRADING_PAIRS) : At(p) # {} }
        pair   == IF found = {} THEN << >>
                  ELSE TRADING_PAIRS[CHOOSE p \in found :
                          \E i \in At(p) : \A q \in found : \A j \in At(q) :
                              i < j \/ (i = j /\ p <= q)]
    IN  [ message |-> t, source |-> "whatsapp", pair |-> pair, action |-> action,
          entry |-> find_value(ENTRY, up), tp |-> find_value(TP, up),
          sl |-> find_value(SL, up),
          priority |-> IF action \in {"BUY", "SELL"} THEN "high" ELSE "medium" ]

\* extract_signal: the dict it returns, without the timestamp; the pair is the
\* first of TRADING_PAIRS, in the order of the list, that the upper-case text
\* holds.
extract_signal(t) ==
    LET up     == upper(t)
        action == IF in(BUY, up) \/ in(LONG, up) THEN "BUY"
                  ELSE IF in(SELL, up) \/ in(SHORT, up) THEN "SELL"
                  ELSE ""
        found  == { p \in 1..Len(TRADING_PAIRS) : in(TRADING_PAIRS[p], up) }
        pair   == IF found = {} THEN << >>
                  ELSE TRADING_PAIRS[CHOOSE p \in found : \A q \in found : p <= q]
    IN  [ message |-> t, source |-> "whatsapp", pair |-> pair, action |-> action,
          entry |-> find_value(ENTRY, up), tp |-> find_value(TP, up),
          sl |-> find_value(SL, up),
          priority |-> IF action \in {"BUY", "SELL"} THEN "high" ELSE "medium" ]

\* The texts extract_signal is called with: every text of at most MaxText
\* characters of an alphabet that spells three pairs (ADA, USD and XAUUSD) in
\* mixed case, a message with every field, and messages whose labels are
\* followed by a colon, by a decimal, by nothing and by a word.
PairAlphabet == {"X", "a", "U", "S", "D"}
Scenario ==
    <<"B", "U", "Y", " ", "B", "T", "C", "U", "S", "D", " ", "e", "n", "t",
      "r", "y", " ", "5", "0", "0", "0", "0", " ", "t", "p", " ", "5", "1",
      "5", "0", "0", " ", "s", "l", " ", "4", "9", "0", "0", "0">>
ExtractTexts ==
    UNION { [1..n -> PairAlphabet] : n \in 0..MaxText }
    \cup { Scenario,
           <<"s", "h", "o", "r", "t", " ", "E", "T", "H", " ", "t", "p", ":", " ", "1", ".", "5">>,
           <<"L", "O", "N", "G", " ", "s", "l", ":", "7", ".", " ", "e", "n", "t", "r", "y">>,
           <<"s", "i", "g", "n", "a", "l", " ", "T", "P", " ", "x", " ", "S", "L", "\n", "2">> }

\* One call of extract_signal(text).
call_extract_signal ==
    /\ ~extracted.made
    /\ extracted' = [made |-> TRUE, result |-> extract_signal(text)]
    /\ UNCHANGED <<storeVars, dispatchVars, sweepVars, webVars, consoleVars, payVars,
                   text, classified, pushArgs, pushRet>>

\* The bodies Twilio posts: a signal with keyword and numeral, a signal with
\* keyword and pair, and a chat line with a keyword alone.
Bodies ==
    { <<"b", "u", "y", " ", "1">>,
      <<"S", "E", "L", "L", " ", "U", "S", "D">>,
      <<"b", "u", "y">> }

\* whatsapp_webhook answering every message as a signal.
whatsapp_webhook_unfiltered(t) ==
    /\ wpc[t] = "idle"
    /\ requests < MaxRequests
    /\ requests' = requests + 1
    /\ \E body \in Bodies :
         LET signal_data == extract_signal(body) IN
         /\ wBody' = [wBody EXCEPT ![t] = body]
         /\ wSignal' = [wSignal EXCEPT ![t] =
                           [ id |-> Stamp, timestamp |-> now,
                             source |-> signal_data.source, pair |-> signal_data.pair,
                             action |-> signal_data.action,
                             message |-> signal_data.message,
                             priority |-> signal_data.priority ]]
         /\ wRead' = [wRead EXCEPT ![t] = signals[now]]
         /\ wpc' = [wpc EXCEPT ![t] = "write"]
         /\ wResp' = wResp
    /\ UNCHANGED <<users, file, now, dispatchVars, sweepVars, sec, signals,
                   consoleVars, payVars, fnVars>>

\* whatsapp_webhook up to the second open() of process_signal.  A body that is
\* no signal is answered at once.  For a signal, extract_signal parses it,
\* process_signal makes the signal ("SIG" + the second of the clock reading as
\* id) and reads signals/<date>.json, the date being that of the same reading.
whatsapp_webhook(t) ==
    /\ wpc[t] = "idle"
    /\ requests < MaxRequests
    /\ requests' = requests + 1
    /\ \E body \in Bodies :
         /\ wBody' = [wBody EXCEPT ![t] = body]
         /\ IF is_trading_signal(body)
            THEN LET signal_data == extract_signal(body) IN
                 /\ wSignal' = [wSignal EXCEPT ![t] =
                                   [ id |-> Stamp, timestamp |-> now,
                                     source |-> signal_data.source,
                                     pair |-> signal_data.pair,
                                     action |-> signal_data.action,
                                     message |-> signal_data.message,
                                     priority |-> signal_data.priority ]]
                 /\ wRead' = [wRead EXCEPT ![t] = signals[now]]
                 /\ wpc' = [wpc EXCEPT ![t] = "write"]
                 /\ wResp' = wResp
            ELSE /\ wResp' = [wResp EXCEPT ![t] = [status |-> "not_a_signal"]]
                 /\ wpc' = [wpc EXCEPT ![t] = "responded"]
                 /\ UNCHANGED <<wSignal, wRead>>
    /\ UNCHANGED <<users, file, now, dispatchVars, sweepVars, sec, signals,
                   consoleVars, payVars, fnVars>>

\* process_signal: signals.append(signal) and the rewrite of the day's file
\* with the list read.
process_signal_write(t) ==
    /\ wpc[t] = "write"
    /\ signals' = [signals EXCEPT ![wSignal[t].timestamp] = Append(wRead[t], wSignal[t])]
    /\ wpc' = [wpc EXCEPT ![t] = "alerts"]
    /\ UNCHANGED <<storeVars, dispatchVars, sweepVars, sec, wBody, wSignal, wRead, wResp,
                   consoleVars, payVars, fnVars>>

\* process_signal calls trigger_alerts.  The passes of two requests are taken
\* one after the other.
process_signal_alerts(t) ==
    /\ wpc[t] = "alerts"
    /\ trigger_alerts_enter
    /\ wpc' = [wpc EXCEPT ![t] = "pass"]
    /\ UNCHANGED <<storeVars, sweepVars, sec, signals, wBody, wSignal, wRead, wResp,
                   consoleVars, payVars, fnVars>>

\* whatsapp_webhook_return answering with an error when a text message of the
\* pass failed.
whatsapp_webhook_return_checked(t) ==
    /\ wpc[t] = "pass"
    /\ dpc = "done"
    /\ wResp' = [wResp EXCEPT ![t] =
                    IF dFailed = {}
                    THEN [status |-> "signal_processed", signal_id |-> wSignal[t].id]
                    ELSE [status |-> "error"]]
    /\ wpc' = [wpc EXCEPT ![t] = "responded"]
    /\ UNCHANGED <<storeVars, dispatchVars, sweepVars, sec, signals, wBody, wSignal, wRead,
                   consoleVars, payVars, fnVars>>

\* trigger_alerts has returned: process_signal returns signal_id and
\* whatsapp_webhook answers with it.
whatsapp_webhook_return(t) ==
    /\ wpc[t] = "pass"
    /\ dpc = "done"
    /\ wResp' = [wResp EXCEPT ![t] =
                    [status |-> "signal_processed", signal_id |-> wSignal[t].id]]
    /\ wpc' = [wpc EXCEPT ![t] = "responded"]
    /\ UNCHANGED <<storeVars, dispatchVars, sweepVars, sec, signals, wBody, wSignal, wRead,
                   consoleVars, payVars, fnVars>>

\* The request is over: the locals of the thread, and those of the pass it
\* ran, are gone.
whatsapp_webhook_end(t) ==
    /\ wpc[t] = "responded"
    /\ IF wResp[t].status = "not_a_signal"
       THEN UNCHANGED dispatchVars
       ELSE trigger_alerts_leave
    /\ wpc' = [wpc EXCEPT ![t] = "idle"]
    /\ wBody' = [wBody EXCEPT ![t] = << >>]
    /\ wSignal' = [wSignal EXCEPT ![t] = NoSignal]
    /\ wRead' = [wRead EXCEPT ![t] = << >>]
    /\ wResp' = [wResp EXCEPT ![t] = NoResponse]
    /\ UNCHANGED <<storeVars, sweepVars, sec, signals, consoleVars, payVars, fnVars>>

\* ------------------------------------------------------------ specification
\* TradeLBot.__init__: load_users reads data/users.json (an absent file gives
\* the empty collection, which save_users writes).
AppInit ==
    /\ users \in InitialFiles
    /\ file = users
    /\ now = 0
    /\ requests = 0
    /\ dpc = "idle"
    /\ dActive = << >>
    /\ dPos = 1
    /\ dBase = << >>
    /\ dSent = {}
    /\ dFailed = {}
    /\ dPush = {}
    /\ dBuf = << >>
    /\ dWrites = 0
    /\ spc = "sleep"
    /\ sNow = 0
    /\ sPos = 1
    /\ sChanged = FALSE
    /\ sBuf = << >>
    /\ sWrites = 0
    /\ sExpired = {}
    /\ sFault = FALSE
    /\ sQuiet = 0

\* No request is being served, and signals/ holds no signal.
webInit ==
    /\ sec = 0
    /\ signals = [d \in Instants |-> << >>]
    /\ wpc = [t \in Threads |-> "idle"]
    /\ wBody = [t \in Threads |-> << >>]
    /\ wSignal = [t \in Threads |-> NoSignal]
    /\ wRead = [t \in Threads |-> << >>]
    /\ wResp = [t \in Threads |-> NoResponse]

\* The management console is not running.
consoleInit ==
    /\ cpc = "idle"
    /\ cUsers = << >>
    /\ cPicked = 0

\* No payment was requested yet.
payInit ==
    /\ pending = << >>
    /\ confirmed = << >>
    /\ created = 0
    /\ confirmRet = "none"

\* No function call is under study.
fnInit ==
    /\ text = << >>
    /\ classified = NoCall
    /\ extracted = NoCall
    /\ pushArgs = NoCall
    /\ pushRet = NoCall

Init == AppInit /\ webInit /\ consoleInit /\ payInit /\ fnInit

Dispatch ==
    \/ trigger_alerts_begin
    \/ trigger_alerts_user
    \/ trigger_alerts_save
    \/ trigger_alerts_close
    \/ trigger_alerts_return

Sweeper ==
    \/ check_subscriptions_begin
    \/ check_subscriptions_user
    \/ check_subscriptions_end
    \/ check_subscriptions_close
    \/ run_sleep

Next ==
    \/ Tick
    \/ add_user
    \/ activate_user
    \/ deactivate_user
    \/ Dispatch
    \/ Sweeper

Spec == Init /\ [][Next]_vars

\* The daemon thread keeps being scheduled and time.sleep returns.
FairSpec == Spec /\ WF_vars(Sweeper)

\* The application serving management requests and dispatch passes while the
\* operator uses the management console.
Console ==
    \/ activate_user_cli_load
    \/ activate_user_cli_save
    \/ activate_user_cli_quit

ConsoleNext ==
    \/ Tick
    \/ add_user
    \/ activate_user
    \/ deactivate_user
    \/ Dispatch
    \/ Console

ConsoleSpec == Init /\ [][ConsoleNext]_vars

\* The application serving the webhook and add_user on its request threads,
\* within one day.
Webhook ==
    \E t \in Threads :
        \/ whatsapp_webhook(t)
        \/ process_signal_write(t)
        \/ process_signal_alerts(t)
        \/ whatsapp_webhook_return(t)
        \/ whatsapp_webhook_end(t)

WebNext ==
    \/ Second
    \/ add_user
    \/ Webhook
    \/ trigger_alerts_user
    \/ trigger_alerts_save
    \/ trigger_alerts_close

WebSpec == Init /\ [][WebNext]_vars

\* The application serving management requests and dispatch passes while
\* payments are requested and confirmed.
Payments ==
    \/ create_payment_record
    \/ confirm_payment

PayNext ==
    \/ add_user
    \/ activate_user
    \/ deactivate_user
    \/ Dispatch
    \/ Payments

PaySpec == Init /\ [][PayNext]_vars

\* Payments requested and confirmed over the days, for the subscribers the
\* application adds and for users made at the command line.
LedgerNext ==
    \/ Tick
    \/ add_user
    \/ Payments

LedgerSpec == Init /\ [][LedgerNext]_vars

\* An application with no subscriber, in which nothing runs.
QuietInit ==
    AppInit /\ users = << >> /\ webInit /\ consoleInit /\ payInit

\* is_trading_signal called once, on any of the texts.
ClassifyInit ==
    /\ QuietInit
    /\ text \in Texts
    /\ classified = NoCall
    /\ extracted = NoCall
    /\ pushArgs = NoCall
    /\ pushRet = NoCall

ClassifyNext == call_is_trading_signal

ClassifySpec == ClassifyInit /\ [][ClassifyNext]_vars

\* extract_signal called once, on any of the texts.
ExtractInit ==
    /\ QuietInit
    /\ text \in ExtractTexts
    /\ classified = NoCall
    /\ extracted = NoCall
    /\ pushArgs = NoCall
    /\ pushRet = NoCall

ExtractNext == call_extract_signal

ExtractSpec == ExtractInit /\ [][ExtractNext]_vars

\* send_push_notification called once, on any AlertSystem, token and signal.
PushInit ==
    /\ QuietInit
    /\ text = << >>
    /\ classified = NoCall
    /\ extracted = NoCall
    /\ pushArgs \in PushCalls
    /\ pushRet = NoCall

PushNext == call_send_push_notification

PushSpec == PushInit /\ [][PushNext]_vars

\* ------------------------------------------------------------------ claims
\* The users of the pass in progress, and those with a contact address.
PassUsers == { dActive[k] : k \in 1..Len(dActive) }
Eligible  == { i \in PassUsers : Truthy(users[i].phone) }

\* C1: when a dispatch pass over N active users, K of them without a phone, has
\* ended, a text message was attempted for exactly the N-K users with a phone
\* and the alerts_received of each of the K others is what it was when the
\* pass began.
C1_NoPhoneSkipped ==
    dpc = "done" =>
        /\ dSent = Eligible
        /\ \A i \in PassUsers \ Eligible : users[i].alerts_received = dBase[i]

\* C2: when a dispatch pass has ended, every active user with a phone has
\* alerts_received one above its value when the pass began, whatever the text
\* message and the push did.
C2_AttemptCounted ==
    dpc = "done" =>
        \A i \in Eligible : users[i].alerts_received = dBase[i] + 1

\* A pass has ended in which the text message and the push of one user both
\* failed, and the user was counted.
C2_Witness ==
    /\ dpc = "done"
    /\ \E i \in Eligible :
         /\ i \in dFailed
         /\ <<i, "failed">> \in dPush
         /\ users[i].alerts_received = dBase[i] + 1

\* C3: when the text message of one user of a pass failed, the pass still ends
\* with its write done and with a text message attempted for every eligible
\* user after that one.
C3_FailureIsolated ==
    dpc = "done" =>
        \A k \in 1..Len(dActive) :
            dActive[k] \in dFailed =>
                /\ dWrites = 1
                /\ \A m \in (k + 1)..Len(dActive) :
                     dActive[m] \in Eligible => dActive[m] \in dSent

\* A pass has ended in which the text message of the first user failed and the
\* second user was attempted.
C3_Witness ==
    /\ dpc = "done"
    /\ Len(dActive) >= 2
    /\ dActive[1] \in dFailed
    /\ dActive[2] \in dSent
    /\ dWrites = 1

\* C4: a dispatch pass writes data/users.json at most once, not before the
\* last user of the batch was processed, and exactly once when it has ended.
C4_OneWriteAtEnd ==
    /\ dWrites <= 1
    /\ dWrites = 1 => dPos > Len(dActive)
    /\ dpc = "done" => dWrites = 1

\* A pass over two users, one of whose text messages failed, has ended with
\* its one write.
C4_Witness ==
    /\ dpc = "done"
    /\ dWrites = 1
    /\ Len(dActive) = 2
    /\ dFailed # {}

\* An active subscriber whose expiry is a parseable instant before t.
ExpiredAt(u, t) == u.status = "active" /\ u.expiry.kind = "iso" /\ t > u.expiry.at

\* An active subscriber whose stored expiry datetime.fromisoformat cannot parse.
Unparseable(u) ==
    u.status = "active" /\ u.expiry.kind # "none" /\ fromisoformat(u.expiry) # "ok"

\* C5: once a dispatch pass and a sweep that interleaved have both ended, the
\* file holds the status inactive for every subscriber the sweep set (and that
\* still is) inactive, and the counter of every user of the pass.
C5_NoLostUpdate ==
    (dpc = "done" /\ spc = "returned" /\ ~sFault) =>
        /\ \A i \in sExpired :
             users[i].status = "inactive" =>
                 i <= Len(file) /\ file[i].status = "inactive"
        /\ \A i \in PassUsers :
             i <= Len(file) /\ file[i].alerts_received = users[i].alerts_received

\* C6: when a sweep has ended, no subscriber is active with an expiry before
\* the time of the sweep, and a sweep that set a subscriber to inactive wrote
\* data/users.json exactly once.
C6_ExpiredSwept ==
    spc = "returned" =>
        /\ \A i \in 1..Len(users) : ~ExpiredAt(users[i], sNow)
        /\ sExpired # {} => sWrites = 1

\* C7: a step of the sweep over a subscriber that is not active with a past
\* expiry changes no record; a sweep that ends having set no subscriber to
\* inactive has written nothing; and a sweep that ran right after another one,
\* with no request served and no clock movement since that one began, has set
\* no subscriber to inactive and written nothing.
C7_CleanSweepIsNoOp ==
    [][ /\ (spc = "scan" /\ sPos <= Len(users) /\ sPos' = sPos + 1
             /\ ~ExpiredAt(users[sPos], sNow)) => users' = users
        /\ (spc # "returned" /\ spc' = "returned" /\ sExpired' = {})
             => (sWrites' = 0 /\ file' = file)
        /\ (spc' = "returned" /\ sQuiet' = 2) => (sExpired' = {} /\ sWrites' = 0)
      ]_vars

\* A second sweep in a row has ended without a fault over a collection that
\* holds a subscriber the first one set to inactive, and wrote nothing.
C7_Witness ==
    /\ spc = "returned"
    /\ sQuiet = 2
    /\ ~sFault
    /\ sWrites = 0
    /\ \E i \in 1..Len(users) :
         /\ users[i].status = "inactive"
         /\ users[i].expiry.kind = "iso"
         /\ sNow > users[i].expiry.at
         /\ file = users

\* C8: under fair scheduling of the background loop, a subscriber that is
\* active with an expiry in the past is eventually not so (it is inactive, or
\* was activated again).
C8_EventuallyInactive ==
    \A i \in 1..MaxUsers :
        (i <= Len(users) /\ ExpiredAt(users[i], now))
            ~> (i <= Len(users) /\ ~ExpiredAt(users[i], now))

\* C9: a step of the sweep over an active subscriber whose expiry cannot be
\* parsed changes no record and leaves the sweep running; and a sweep over a
\* collection with such a subscriber ends with every active subscriber with a
\* past expiry set to inactive, and written if it set one.
C9_UnparseableSkipped ==
    [][ /\ (spc = "scan" /\ sPos <= Len(users) /\ sPos' = sPos + 1
             /\ Unparseable(users[sPos]))
             => (users' = users /\ spc' = "scan")
        /\ (spc # "returned" /\ spc' = "returned"
             /\ \E i \in 1..Len(users') : Unparseable(users'[i]))
             => /\ \A j \in 1..Len(users') : ~ExpiredAt(users'[j], sNow')
                /\ sExpired' # {} => sWrites' = 1
      ]_vars

\* C10: the background thread never ends, and after a sweep that raised (run
\* logged it) a sweep is run again.
C10_LoopSurvivesFault ==
    /\ [](spc # "dead")
    /\ sFault ~> (spc = "scan")

\* A sweep is running after one that raised.
C10_Witness ==
    /\ spc = "scan"
    /\ sFault

\* C11: a step of activate_user for the id of a subscriber leaves that
\* subscriber active with expiry now + 30 days, whatever its status and expiry
\* were, and the file equal to the collection; a step of the management
\* console activating the pending subscriber the operator picked leaves that
\* subscriber, in the file, active with expiry now + 30 days.
C11_ActivationSetsWindow ==
    [][ /\ \A i \in 1..Len(users) :
             activate_user_on(users[i].id) =>
                 /\ users'[i].status = "active"
                 /\ users'[i].expiry = Iso(now + SubscriptionDays)
                 /\ file' = users'
        /\ \A k \in 1..MaxUsers :
             activate_user_cli_pick(k) =>
                 /\ file'[k].status = "active"
                 /\ file'[k].expiry = Iso(now + SubscriptionDays)
      ]_vars

\* C12: no step lowers the alerts_received of a subscriber, neither in the
\* collection of the running application nor in data/users.json.
C12_CounterNeverDecreases ==
    [][ /\ \A i \in 1..Len(users) :
             i <= Len(users') /\ users'[i].alerts_received >= users[i].alerts_received
        /\ \A i \in 1..Len(file) :
             i <= Len(file') => file'[i].alerts_received >= file[i].alerts_received
      ]_vars

\* The keywords and the pairs as the specification lists them.
Keywords == { <<"B", "U", "Y">>, <<"S", "E", "L", "L">>, <<"L", "O", "N", "G">>,
              <<"S", "H", "O", "R", "T">>, <<"T", "P", ":">>, <<"S", "L", ":">>,
              <<"E", "N", "T", "R", "Y">>, <<"S", "I", "G", "N", "A", "L">> }
Pairs    == { <<"B", "T", "C">>, <<"E", "T", "H">>, <<"X", "R", "P">>, <<"S", "O", "L">>,
              <<"A", "D", "A">>, <<"B", "N", "B">>, <<"U", "S", "D">>, <<"E", "U", "R">>,
              <<"G", "B", "P">>, <<"J", "P", "Y">>, <<"X", "A", "U", "U", "S", "D">>,
              <<"G", "O", "L", "D">> }

\* w occurs in the upper-case text u.
Occurs(w, u) ==
    \E i \in 1..Len(u) :
        /\ i + Len(w) - 1 <= Len(u)
        /\ \A j \in 1..Len(w) : u[i + j - 1] = w[j]

HasKeyword(t) == LET u == upper(t) IN \E w \in Keywords : Occurs(w, u)
HasPair(t)    == LET u == upper(t) IN \E w \in Pairs : Occurs(w, u)
HasNumeral(t) == \E i \in 1..Len(t) : t[i] \in Digits

\* C20: is_trading_signal(text) is true exactly when the text holds a keyword
\* and (a pair or a numeral): with a keyword and a numeral it is true, with a
\* keyword and neither pair nor numeral it is false, without keyword it is
\* false.
C20_Classification ==
    classified.made =>
        /\ classified.result = (HasKeyword(text) /\ (HasPair(text) \/ HasNumeral(text)))
        /\ (HasKeyword(text) /\ HasNumeral(text)) => classified.result
        /\ (HasKeyword(text) /\ ~HasPair(text) /\ ~HasNumeral(text)) => ~classified.result
        /\ ~HasKeyword(text) => ~classified.result

\* is_trading_signal returned true for a text in mixed case with a keyword and
\* a numeral and no pair.
C20_Witness ==
    /\ classified.made
    /\ classified.result
    /\ text = <<"s", "L", ":", "7">>

\* C18: a call of send_push_notification on an AlertSystem with the app
\* identifier or the API key unset returns the not-attempted outcome and makes
\* no network call, whatever the token and the signal.
C18_UnconfiguredPushIsInert ==
    (pushRet.made /\ (pushArgs.app_id = "" \/ pushArgs.api_key = "")) =>
        /\ pushRet.outcome = "not_attempted"
        /\ pushRet.returned = "None"
        /\ pushRet.posts = 0

\* send_push_notification returned on an AlertSystem with the API key alone
\* unset, a provider that would have accepted the notification, and a signal
\* with action and pair.
C18_Witness ==
    /\ pushRet.made
    /\ pushArgs.app_id # ""
    /\ pushArgs.api_key = ""
    /\ pushArgs.net = "ok"
    /\ pushArgs.action # ""
    /\ pushRet.posts = 0

\* C17: when a dispatch pass has ended, send_push_notification was called for
\* every user of the pass with a phone and a push token, whether the text
\* message of that user went out or failed; for a user with a phone and no
\* push token it was not called, and the user was counted like the others.
C17_PushIndependent ==
    dpc = "done" =>
        \A i \in Eligible :
            IF Truthy(users[i].push_token)
            THEN \E o \in {"not_attempted", "sent", "failed"} : <<i, o>> \in dPush
            ELSE /\ \A o \in {"not_attempted", "sent", "failed"} : <<i, o>> \notin dPush
                 /\ users[i].alerts_received = dBase[i] + 1

\* A pass has ended in which the text message of a user failed and the push to
\* the same user was sent, and in which another user has no push token.
C17_Witness ==
    /\ dpc = "done"
    /\ \E i \in Eligible : i \in dFailed /\ <<i, "sent">> \in dPush
    /\ \E i \in Eligible : ~Truthy(users[i].push_token)

\* The signals persisted, over all the days.
RECURSIVE LogEntries(_)
LogEntries(days) ==
    IF days = {} THEN {}
    ELSE LET d == CHOOSE x \in days : TRUE
         IN  { <<d, k>> : k \in 1..Len(signals[d]) } \cup LogEntries(days \ {d})

\* C13: no two subscribers of the collection share an id, and no two persisted
\* signals share an id.
C13_UniqueIds ==
    /\ \A i, j \in 1..Len(users) : i # j => users[i].id # users[j].id
    /\ \A e, f \in LogEntries(Instants) :
         e # f => signals[e[1]][e[2]].id # signals[f[1]][f[2]].id

\* C14: no step removes or changes an entry of a day's log: every log keeps
\* the entries it had, in their places.
C14_LogAppendOnly ==
    [][ \A d \in Instants :
            /\ Len(signals'[d]) >= Len(signals[d])
            /\ \A k \in 1..Len(signals[d]) : signals'[d][k] = signals[d][k]
      ]_vars

\* The bodies is_trading_signal is true of.
SignalBodies == { b \in Bodies : is_trading_signal(b) }

\* C15: a request is answered signal_processed, with the id of its signal,
\* when is_trading_signal is true of its body, and not_a_signal when it is
\* false; only a request with a signal gets to write the log or to run a
\* dispatch pass, and the step that answers not_a_signal changes neither the
\* log, nor the collection, nor the users file, nor the dispatch pass.
C15_OnlySignalsProcessed ==
    [][ \A t \in Threads :
            /\ wpc'[t] = "responded" =>
                   IF wBody'[t] \in SignalBodies
                   THEN wResp'[t] = [status |-> "signal_processed",
                                     signal_id |-> wSignal'[t].id]
                   ELSE wResp'[t] = [status |-> "not_a_signal"]
            /\ wpc'[t] \in {"write", "alerts", "pass"} => wBody'[t] \in SignalBodies
            /\ (wpc[t] = "idle" /\ wpc'[t] # "idle" /\ wBody'[t] \notin SignalBodies) =>
                   /\ wpc'[t] = "responded"
                   /\ signals' = signals
                   /\ users' = users
                   /\ file' = file
                   /\ dispatchVars' = dispatchVars
      ]_vars

\* A chat line with a keyword alone was answered not_a_signal while the log
\* holds a signal.
C15_Witness ==
    \E t \in Threads :
        /\ wpc[t] = "responded"
        /\ wBody[t] = <<"b", "u", "y">>
        /\ wResp[t] = [status |-> "not_a_signal"]
        /\ \E d \in Instants : Len(signals[d]) > 0

\* C16: a request with a signal is answered signal_processed with the id of
\* the signal, whatever the sends of its dispatch pass did.
C16_ResponseIgnoresFailures ==
    \A t \in Threads :
        (wpc[t] = "responded" /\ wBody[t] \in SignalBodies) =>
            wResp[t] = [status |-> "signal_processed", signal_id |-> wSignal[t].id]

\* A request was answered signal_processed after a pass in which the text
\* message of every user failed and a push failed too.
C16_Witness ==
    \E t \in Threads :
        /\ wpc[t] = "responded"
        /\ wResp[t].status = "signal_processed"
        /\ dpc = "done"
        /\ Eligible # {}
        /\ dFailed = Eligible
        /\ \E i \in Eligible : <<i, "failed">> \in dPush
        /\ \A i \in Eligible : <<i, "sent">> \notin dPush

\* The positions of the subscribers whose status is active.
ActiveNow == { i \in 1..Len(users) : users[i].status = "active" }

\* The subscribers a payment record of a list is for.
PaidFor(list) == { i \in 1..Len(users) : \E k \in 1..Len(list) : list[k].user_id = users[i].id }

\* C19: a step that changes a payment list changes no subscriber, neither in
\* the collection nor in the users file; a dispatch pass takes for its batch
\* exactly the subscribers whose status is active when it begins, whatever the
\* payment lists hold; and when it has ended it has attempted a text message
\* for every subscriber of the batch that has a phone, and has neither sent
\* to nor counted any subscriber outside the batch.
C19_PaymentsDoNotGate ==
    [][ /\ (pending' # pending \/ confirmed' # confirmed) =>
               (users' = users /\ file' = file)
        /\ (dpc = "idle" /\ dpc' = "loop") =>
               { dActive'[k] : k \in 1..Len(dActive') } = ActiveNow
        /\ dpc' = "done" =>
               LET batch == { dActive'[k] : k \in 1..Len(dActive') } IN
               /\ dSent' = { i \in batch : Truthy(users'[i].phone) }
               /\ \A i \in 1..Len(dBase') :
                      i \notin batch => users'[i].alerts_received = dBase'[i]
      ]_vars

\* A pass has ended that alerted a subscriber no payment record exists for,
\* and did not alert a pending subscriber whose payment is confirmed.
C19_Witness ==
    /\ dpc = "done"
    /\ \E i \in PassUsers :
         /\ i \notin PaidFor(pending) \cup PaidFor(confirmed)
         /\ i \in dSent
    /\ \E j \in PaidFor(confirmed) \ PassUsers :
         /\ users[j].status = "pending"
         /\ j <= Len(dBase)
         /\ users[j].alerts_received = dBase[j]

\* C21: extract_signal returns as pair the first token of the pair list, in the
\* order of the list, that occurs in the upper-cased text, wherever it occurs
\* there, and the empty string when none occurs; the message "BUY BTCUSD entry
\* 50000 tp 51500 sl 49000" yields action BUY, pair BTC, entry 50000, tp 51500,
\* sl 49000 and priority high.
C21_PairByListOrder ==
    extracted.made =>
        LET r == extracted.result
            u == upper(text)
            occurring == { p \in 1..Len(TRADING_PAIRS) : Occurs(TRADING_PAIRS[p], u) }
        IN  /\ occurring = {} => r.pair = << >>
            /\ \A p \in occurring :
                 (\A q \in occurring : p <= q) => r.pair = TRADING_PAIRS[p]
            /\ text = Scenario =>
                 /\ r.action = "BUY"
                 /\ r.pair = <<"B", "T", "C">>
                 /\ r.entry = <<"5", "0", "0", "0", "0">>
                 /\ r.tp = <<"5", "1", "5", "0", "0">>
                 /\ r.sl = <<"4", "9", "0", "0", "0">>
                 /\ r.priority = "high"

\* extract_signal has returned for a text in which a pair that is later in the
\* list comes before the pair returned.
C21_Witness ==
    /\ extracted.made
    /\ text = <<"U", "S", "D", "a", "D", "a">>
    /\ extracted.result.pair = <<"A", "D", "A">>

\* C22: a subscriber's status follows pending -> active -> inactive: a
\* subscriber is created pending, no operation sets a status back to pending,
\* and a subscriber becomes inactive only from active, never from pending.
C22_StatusOrder ==
    [][ \A i \in 1..Len(users') :
          IF i > Len(users)
          THEN users'[i].status = "pending"
          ELSE /\ users'[i].status = "pending" => users[i].status = "pending"
               /\ (users'[i].status = "inactive" /\ users[i].status # "inactive")
                     => users[i].status = "active" ]_vars

\* C23: a sweep changes nothing in the subscriber collection except the status
\* of active subscribers whose expiry is in the past, which it sets to
\* inactive: every other record, every expiry and every alerts_received stay
\* as they are, and no subscriber is added or removed.
C23_SweepFrame ==
    [][ sweepLocals' # sweepLocals =>
          /\ Len(users') = Len(users)
          /\ \A i \in 1..Len(users) :
               \/ users'[i] = users[i]
               \/ /\ ExpiredAt(users[i], now)
                  /\ users'[i] = [users[i] EXCEPT !.status = "inactive"] ]_vars

\* A sweep has ended that set a subscriber inactive and passed over a pending
\* subscriber and an active one that is not due.
C23_Witness ==
    /\ spc = "returned"
    /\ sExpired # {}
    /\ \E j \in 1..Len(users) : users[j].status = "pending"
    /\ \E j \in 1..Len(users) :
         users[j].status = "active" /\ users[j].expiry.kind = "iso" /\ now <= users[j].expiry.at

\* C24: a subscriber's expiry is present if and only if the subscriber has
\* been activated at least once.  Step by step: add_user creates the record
\* without expiry, an activation leaves the activated record with an expiry,
\* and no step other than an activation of that record (no deactivation, sweep
\* or dispatch pass) sets, clears or changes an expiry.
C24_ExpiryIffActivated ==
    [][ /\ Len(users') >= Len(users)
        /\ \A i \in 1..Len(users') :
             i > Len(users) => users'[i].expiry.kind = "none"
        /\ \A uid \in { users[i].id : i \in 1..Len(users) } :
             activate_user_on(uid) =>
                 users'[FirstWithId(users, uid)].expiry.kind # "none"
        /\ \A i \in 1..Len(users) :
             users'[i].expiry # users[i].expiry =>
                 \E uid \in { users[k].id : k \in 1..Len(users) } :
                     activate_user_on(uid) /\ i = FirstWithId(users, uid) ]_vars

\* A subscriber that was activated and then deactivated before its expiry
\* still has the expiry, beside a subscriber never activated that has none.
C24_Witness ==
    /\ \E i \in 1..Len(users) :
         /\ users[i].status = "inactive"
         /\ users[i].expiry.kind = "iso"
         /\ users[i].expiry.at >= now
    /\ \E j \in 1..Len(users) :
         users[j].status = "pending" /\ users[j].expiry.kind = "none"

\* C25: no alert is sent to a subscriber whose status is not active at the
\* moment of the send: when the loop of a dispatch pass comes to a subscriber
\* that a sweep or a deactivation set inactive since the pass began, that
\* iteration makes no channel send and leaves the alerts_received as it is.
C25_NoSendToInactive ==
    [][ ( /\ dpc = "loop"
          /\ dPos <= Len(dActive)
          /\ dPos' = dPos + 1
          /\ users[dActive[dPos]].status # "active" )
        => /\ dSent' = dSent
           /\ dPush' = dPush
           /\ users'[dActive[dPos]].alerts_received
                = users[dActive[dPos]].alerts_received ]_vars

\* C26: an activation the management console wrote to data/users.json is never
\* lost: while the file holds the subscriber the console activated as active
\* with an expiry, no step of the application that is not a change of that
\* subscriber's own status leaves the file with that subscriber pending or
\* without expiry.
C26_ConsoleActivationKept ==
    [][ ( /\ cPicked # 0
          /\ consoleVars' = consoleVars
          /\ cPicked <= Len(file)
          /\ file[cPicked].status = "active"
          /\ file[cPicked].expiry.kind # "none"
          /\ users'[cPicked].status = users[cPicked].status )
        => /\ cPicked <= Len(file')
           /\ file'[cPicked].status # "pending"
           /\ file'[cPicked].expiry.kind # "none" ]_vars

\* C27: after the management console activated a pending subscriber that has
\* a contact address, the next dispatch pass of the application that starts
\* before the subscriber's expiry attempts an alert to that subscriber: a pass
\* that begins while data/users.json holds the console's activation takes that
\* subscriber among the users it sends to.  (Every pass ends by rewriting the
\* file from the collection, so such a pass is the next one.)
C27_ConsoleActivationAlerted ==
    [][ ( /\ dpc = "idle"
          /\ dpc' = "loop"
          /\ cPicked # 0
          /\ cPicked <= Len(file)
          /\ file[cPicked].status = "active"
          /\ file[cPicked].expiry.kind = "iso"
          /\ now < file[cPicked].expiry.at
          /\ Truthy(file[cPicked].phone) )
        => \E k \in 1..Len(dActive') : dActive'[k] = cPicked ]_vars

\* C28: confirm_payment(reference) moves a payment from pending to confirmed:
\* when a pending payment has the reference it returns True, and afterwards no
\* pending record has the reference and the confirmed list holds that payment
\* with status confirmed; when none has, it returns False and both lists are
\* as they were.
C28_ConfirmMoves ==
    [][ \A reference \in References :
          confirm_payment_of(reference) =>
            IF \E k \in 1..Len(pending) : pending[k].reference = reference
            THEN /\ confirmRet' = "True"
                 /\ \A k \in 1..Len(pending') : pending'[k].reference # reference
                 /\ \E k \in 1..Len(pending), j \in 1..Len(confirmed') :
                      /\ pending[k].reference = reference
                      /\ confirmed'[j] = [pending[k] EXCEPT !.status = "confirmed"]
            ELSE /\ confirmRet' = "False"
                 /\ pending' = pending
                 /\ confirmed' = confirmed ]_vars

\* confirm_payment has moved one of two pending payments and returned True.
C28_Witness ==
    /\ confirmRet = "True"
    /\ Len(confirmed) = 1
    /\ Len(pending) = 1
    /\ confirmed[1].status = "confirmed"
    /\ pending[1].reference # confirmed[1].reference

\* C29: payment records are conserved: the pending list and the confirmed
\* list together hold as many records as create_payment_record made (each
\* confirm_payment removes from pending exactly the one record it adds to
\* confirmed).
C29_PaymentsConserved ==
    Len(pending) + Len(confirmed) = created

\* C30: no two payment records of the pending and the confirmed lists share a
\* reference.
C30_UniqueReferences ==
    LET records == pending \o confirmed IN
    \A i, j \in 1..Len(records) :
        records[i].reference = records[j].reference => i = j

====
